---- MODULE Spec2Model ----
(***************************************************************************)
(* A model of the round-robin OFDMA scheduler of src/rr-ofdma-manager.cc:  *)
(* RrOfdmaManager::SelectTxFormat, GetNumberAndTypeOfRus (with merge_sort) *)
(* and ComputeDlOfdmaInfo, together with the part of the access point's    *)
(* MAC they query (station table, transmit queues, buffer status reports). *)
(***************************************************************************)
EXTENDS Integers, Sequences, FiniteSets, TLC

VARIABLES
  \* attributes of the manager (GetTypeId)
  m_nStations, m_forceDlOfdma, m_enableUlOfdma, m_ulPsduSize,
  \* environment queried by the manager
  bw,            \* m_low->GetPhy ()->GetChannelWidth ()
  staList,       \* m_apMac->GetStaList (): AID -> MAC address
  queue,         \* per AID and TID: block-ack agreement and head-of-queue frame
  bufferStatus,  \* m_apMac->GetMaxBufferStatus: AID -> code 0..255
  bulksend1, onoff1, http1,   \* class membership tables (MAC addresses)
  \* state of the manager
  m_startStation, m_staInfo, m_dataInfo, m_txVector, m_txParams, txFormat,
  dlInfo,        \* the DlOfdmaInfo last returned by ComputeDlOfdmaInfo
  \* control: which call comes next, or how the program ended
  pc,
  \* locals of the last SelectTxFormat / ComputeDlOfdmaInfo call
  last,
  \* history: RU grants per AID since the demand and the table last changed
  grants

cfgVars == <<m_nStations, m_forceDlOfdma, m_enableUlOfdma, m_ulPsduSize>>
envVars == <<bw, staList, queue, bufferStatus, bulksend1, onoff1, http1>>
mgrVars == <<m_startStation, m_staInfo, m_dataInfo, m_txVector, m_txParams,
             txFormat, dlInfo>>
vars == <<cfgVars, envVars, mgrVars, pc, last, grants>>

-----------------------------------------------------------------------------
(* Bounds of the model *)

MaxAid == 3          \* AIDs of the station table are 1..MaxAid
MaxFrame == 2        \* head-of-queue frame sizes are 1..MaxFrame (and one oversize)
MaxOnoff == 9        \* largest number of onoff candidates in a packed batch
MaxBulk == 8         \* largest number of bulksend candidates in a packed batch
MaxHttp == 3         \* largest number of http candidates in a packed batch
MaxNone == 1         \* largest number of candidates listed in no class table
MaxUnlisted == 4     \* largest batch in which no candidate is listed in a class table
MixOnoff == 7        \* largest number of onoff candidates in a batch of the mixed branch
MixBulk == 2         \* largest number of bulksend candidates in such a batch
MixHttp == 2         \* largest number of http candidates in such a batch
MaxSort == 4         \* longest class list sorted with every choice of frame sizes
MaxFair == 3         \* largest number of stations of a class where grants are counted

-----------------------------------------------------------------------------
(* Helpers on sequences *)

Min2(x, y) == IF x <= y THEN x ELSE y
Max2(x, y) == IF x >= y THEN x ELSE y

Range(s) == {s[i] : i \in 1..Len(s)}

\* s[from..to] of a sequence, empty when from > to
Slice(s, from, to) == [i \in 1..Max2(to - from + 1, 0) |-> s[from + i - 1]]

-----------------------------------------------------------------------------
(* HeRu::m_heRuSubcarrierGroups (ns-3 he-ru.cc, IEEE 802.11ax tables 28-6  *)
(* to 28-8): RU types are named by their tone count, and the map is        *)
(* ordered by (bandwidth, RU type). It has no entry for 160 MHz.           *)

RU_26_TONE == 26
RU_52_TONE == 52
RU_106_TONE == 106
RU_2x996_TONE == 1992

HeRuKeys ==
  << <<20, 26>>, <<20, 52>>, <<20, 106>>, <<20, 242>>,
     <<40, 26>>, <<40, 52>>, <<40, 106>>, <<40, 242>>, <<40, 484>>,
     <<80, 26>>, <<80, 52>>, <<80, 106>>, <<80, 242>>, <<80, 484>>, <<80, 996>> >>

\* m_heRuSubcarrierGroups.at (key).size (); 0 stands for "no such key"
HeRuGroups(bandwidth, ruType) ==
  CASE bandwidth = 20 /\ ruType = 26 -> 9
    [] bandwidth = 20 /\ ruType = 52 -> 4
    [] bandwidth = 20 /\ ruType = 106 -> 2
    [] bandwidth = 20 /\ ruType = 242 -> 1
    [] bandwidth = 40 /\ ruType = 26 -> 18
    [] bandwidth = 40 /\ ruType = 52 -> 8
    [] bandwidth = 40 /\ ruType = 106 -> 4
    [] bandwidth = 40 /\ ruType = 242 -> 2
    [] bandwidth = 40 /\ ruType = 484 -> 1
    [] bandwidth = 80 /\ ruType = 26 -> 37
    [] bandwidth = 80 /\ ruType = 52 -> 16
    [] bandwidth = 80 /\ ruType = 106 -> 8
    [] bandwidth = 80 /\ ruType = 242 -> 4
    [] bandwidth = 80 /\ ruType = 484 -> 2
    [] bandwidth = 80 /\ ruType = 996 -> 1
    [] OTHER -> 0

-----------------------------------------------------------------------------
(* merge and merge_sort: v is the vector, p, q, r are 0-based as in the    *)
(* source; the model's sequences are 1-based.                              *)

RECURSIVE MergeLoopStrict(_, _, _)
\* the loops of merge with > in the comparison of line 483
MergeLoopStrict(L, R, acc) ==
  IF L = <<>> THEN acc \o R
  ELSE IF R = <<>> THEN acc \o L
  ELSE IF Head(L).size > Head(R).size
       THEN MergeLoopStrict(Tail(L), R, Append(acc, Head(L)))
       ELSE MergeLoopStrict(L, Tail(R), Append(acc, Head(R)))

RECURSIVE MergeLoop(_, _, _)
\* the three loops of merge: take L[i] while it is >= R[j], else R[j]
MergeLoop(L, R, acc) ==
  IF L = <<>> THEN acc \o R
  ELSE IF R = <<>> THEN acc \o L
  ELSE IF Head(L).size >= Head(R).size
       THEN MergeLoop(Tail(L), R, Append(acc, Head(L)))
       ELSE MergeLoop(L, Tail(R), Append(acc, Head(R)))

merge(v, p, q, r) ==
  LET L == Slice(v, p + 1, q + 1)
      R == Slice(v, q + 2, r + 1)
  IN  Slice(v, 1, p) \o MergeLoop(L, R, <<>>) \o Slice(v, r + 2, Len(v))

RECURSIVE merge_sort(_, _, _)
merge_sort(v, p, r) ==
  IF p < r
  THEN LET q == (p + r) \div 2
           v1 == merge_sort(v, p, q)
           v2 == merge_sort(v1, q + 1, r)
       IN  merge(v2, p, q, r)
  ELSE v

-----------------------------------------------------------------------------
(* GetNumberAndTypeOfRus. The result is the returned vector ruAssigned,    *)
(* the rewritten m_dataInfo, and how the call ended: "none" (it returned), *)
(* "out_of_range" (std::map::at threw), "assert" (NS_ASSERT failed) or     *)
(* "ub" (an iterator was read past the end of its vector and the program   *)
(* crashed).                                                               *)

PackResult(ru, data, fault) == [ruAssigned |-> ru, dataInfo |-> data, fault |-> fault]

\* what a read past the end of a vector yields: a crash, a zeroed element
\* ("low") or a stale, valid-looking element ("high")
UbOutcomes == {"crash", "low", "high"}

NullCandidate == [mac |-> 0, size |-> 0, aid |-> 0, tid |-> 0]

\* lines 571-613: bulksend1 is searched first, then onoff1, then http1; a
\* candidate found in no table is pushed to no class
ClassOf(cand) ==
  IF cand.mac \in bulksend1 THEN "bulksend"
  ELSE IF cand.mac \in onoff1 THEN "onoff"
  ELSE IF cand.mac \in http1 THEN "http"
  ELSE "none"

Classify(dataInfo, class) == SelectSeq(dataInfo, LAMBDA c : ClassOf(c) = class)

\* lines 614-619
SortedClass(dataInfo, class) ==
  LET v == Classify(dataInfo, class) IN merge_sort(v, 0, Len(v) - 1)

\* ruAssigned.push_back (ruType, ruIndex) for ruIndex = 1 .. n
UniformRus(ruType, n) == [i \in 1..n |-> <<ruType, i>>]

\* lines 624-644: the first RU definition, in map order, that qualifies;
\* 0 when none does
DegenerateRuType(bandwidth, nStations) ==
  LET hits == {i \in 1..Len(HeRuKeys) :
                 \/ /\ HeRuKeys[i][1] = bandwidth
                    /\ HeRuGroups(HeRuKeys[i][1], HeRuKeys[i][2]) <= nStations
                 \/ /\ bandwidth = 160 /\ HeRuKeys[i][1] = 80
                    /\ 2 * HeRuGroups(HeRuKeys[i][1], HeRuKeys[i][2]) <= nStations}
  IN  IF hits = {} THEN 0
      ELSE HeRuKeys[CHOOSE i \in hits : \A j \in hits : i <= j][2]

\* lines 620-659
PackDegenerate(bandwidth, nStations, onoff, bulksend, http) ==
  LET found == DegenerateRuType(bandwidth, nStations)
      ruType == IF found = 0 THEN RU_2x996_TONE ELSE found
      data == onoff \o bulksend \o http
      n == HeRuGroups(bandwidth, ruType)
  IN  IF found = 0 /\ ~(bandwidth = 160 /\ nStations = 1)
      THEN PackResult(<<>>, data, "assert")
      ELSE IF n = 0 THEN PackResult(<<>>, data, "out_of_range")
      ELSE PackResult(UniformRus(ruType, n), data, "none")

\* lines 665-696: the second loop copies size2 elements out of bulksend
PackOverflow(bandwidth, onoff, bulksend, http, ub) ==
  LET size2 == Len(onoff)
      size3 == Len(bulksend)
      junk == IF ub = "low" THEN NullCandidate ELSE bulksend[size3]
      copied == [i \in 1..size2 |-> IF i <= size3 THEN bulksend[i] ELSE junk]
      data == onoff \o copied \o http
      ruType == HeRuKeys[1][2]
      n == HeRuGroups(bandwidth, ruType)
  IN  IF size3 < size2 /\ ub = "crash" THEN PackResult(<<>>, onoff, "ub")
      ELSE IF n = 0 THEN PackResult(<<>>, data, "out_of_range")
      ELSE PackResult(UniformRus(ruType, n), data, "none")

\* line 703 with the 106-tone unit never reserved
Reserve106Never(a, size3) == FALSE

\* line 703: a is what the onoff candidates leave of the 242 tones
Reserve106(a, size3) == a >= 106 /\ size3 > 0

\* lines 699-721: the counts reserved out of the 242-tone budget
MixedCounts(size2, size3, size4) ==
  LET a0 == 242 - 26 * size2
      use106 == Reserve106(a0, size3)
      a1 == IF use106 THEN a0 - 106 ELSE a0
      left3 == IF use106 THEN size3 - 1 ELSE size3
      n52 == IF a1 >= 52 THEN Min2(a1 \div 52, left3) ELSE 0
      a2 == a1 - 52 * n52
      n26 == IF a2 >= 26 THEN Min2(a2 \div 26, size4) ELSE 0
  IN  [allocated106 |-> IF use106 THEN 1 ELSE 0,
       allocated52 |-> n52,
       allocated26 |-> size2 + n26]

\* lines 723-821: emission of the entries and of the reordered batch.
\* c1, c2, c3 count the elements consumed from onoff, bulksend and http.
MixedEmit(onoff, bulksend, http, cnt) ==
  LET size2 == Len(onoff)
      size3 == Len(bulksend)
      size4 == Len(http)
      \* lines 734-762
      k1 == IF cnt.allocated106 > 0 THEN 0 ELSE Min2(size2, 2)
      k2 == IF cnt.allocated106 > 0 THEN 0 ELSE Min2(size4, 2 - k1)
      dataA == <<bulksend[1]>> \o Slice(onoff, 1, k1) \o Slice(http, 1, k2)
      ruA == IF cnt.allocated106 > 0
             THEN << <<RU_106_TONE, 1>> >>
             ELSE << <<RU_52_TONE, 1>> >> \o [i \in 1..(k1 + k2) |-> <<RU_26_TONE, 2 + i>>]
      al52 == IF cnt.allocated106 > 0 THEN cnt.allocated52 ELSE cnt.allocated52 - 1
      \* lines 763-780
      odd == cnt.allocated26 % 2 /= 0
      oddFromOnoff == odd /\ size2 - k1 > 0
      oddFromHttp == odd /\ ~(size2 - k1 > 0)
      pastEnd == oddFromHttp /\ size4 - k2 <= 0
      dataB == IF oddFromOnoff THEN <<onoff[k1 + 1]>>
               ELSE IF oddFromHttp /\ ~pastEnd THEN <<http[k2 + 1]>>
               ELSE <<>>
      ruB == IF odd THEN << <<RU_26_TONE, 5>> >> ELSE <<>>
      c1 == IF oddFromOnoff THEN k1 + 1 ELSE k1
      c3 == IF oddFromHttp THEN k2 + 1 ELSE k2
      al26 == IF odd THEN cnt.allocated26 - 1 ELSE cnt.allocated26
      \* lines 781-793
      in1 == 3
      in2 == IF al52 > 0 THEN 8 ELSE 6
      n52 == Max2(al52, 0)
      dataC == Slice(bulksend, 2, 1 + n52)
      ruC == [i \in 1..n52 |-> <<RU_52_TONE, in1 + i - 1>>]
      \* lines 794-813
      m1 == Max2(Min2(al26, size2 - c1), 0)
      m2 == Max2(Min2(al26 - m1, size4 - c3), 0)
      dataD == Slice(onoff, c1 + 1, c1 + m1) \o Slice(http, c3 + 1, c3 + m2)
      ruD == [i \in 1..(m1 + m2) |-> <<RU_26_TONE, in2 + i - 1>>]
      \* lines 814-816
      rest == Slice(onoff, c1 + m1 + 1, size2) \o Slice(bulksend, 2 + n52, size3)
              \o Slice(http, c3 + m2 + 1, size4)
  IN  IF pastEnd \/ 1 + n52 > size3
      THEN PackResult(ruA, dataA, "ub")
      ELSE PackResult(ruA \o ruB \o ruC \o ruD,
                      dataA \o dataB \o dataC \o dataD \o rest, "none")

\* lines 699-821
PackMixed(onoff, bulksend, http) ==
  MixedEmit(onoff, bulksend, http, MixedCounts(Len(onoff), Len(bulksend), Len(http)))

\* lines 556-825
\* lines 620, 665 and 699: the branch taken for the three sorted classes
PackBranch(bandwidth, nStations, onoff, bulksend, http, ub) ==
  IF Len(bulksend) = 0 \/ Len(onoff) + Len(bulksend) + Len(http) <= 1
  THEN PackDegenerate(bandwidth, nStations, onoff, bulksend, http)
  ELSE IF Len(onoff) > 7
  THEN PackOverflow(bandwidth, onoff, bulksend, http, ub)
  ELSE PackMixed(onoff, bulksend, http)

GetNumberAndTypeOfRus(bandwidth, nStations, dataInfo, ub) ==
  PackBranch(bandwidth, nStations, SortedClass(dataInfo, "onoff"),
             SortedClass(dataInfo, "bulksend"), SortedClass(dataInfo, "http"), ub)

-----------------------------------------------------------------------------
(* Station table and queues *)

Aids == DOMAIN staList

\* the AIDs of a set ordered as std::map<uint16_t, ...> iterates them
RECURSIVE SortedAids(_)
SortedAids(S) ==
  IF S = {} THEN <<>>
  ELSE LET a == CHOOSE x \in S : \A y \in S : x <= y
       IN  <<a>> \o SortedAids(S \ {a})

\* the AIDs of a set ordered by MAC address, as std::map<Mac48Address, ...>
\* iterates them; mac maps each AID of S to its address
RECURSIVE SortedByMac(_, _)
SortedByMac(S, mac) ==
  IF S = {} THEN <<>>
  ELSE LET a == CHOOSE x \in S : \A y \in S : mac[x] <= mac[y]
       IN  <<a>> \o SortedByMac(S \ {a}, mac)

\* the associated stations in circular AID order, starting at AID from
CircularFrom(from) ==
  LET all == SortedAids(Aids)
      k == CHOOSE i \in 1..Len(all) : all[i] = from
  IN  Slice(all, k, Len(all)) \o Slice(all, 1, k - 1)

\* QosUtilsMapTidToAc, with the enumerators of AcIndex:
\* AC_BE = 0, AC_BK = 1, AC_VI = 2, AC_VO = 3
QosUtilsMapTidToAc(tid) ==
  CASE tid \in {0, 3} -> 0
    [] tid \in {1, 2} -> 1
    [] tid \in {4, 5} -> 2
    [] OTHER -> 3

\* line 389
TidOrder(currTid) == <<currTid, 1, 2, 0, 3, 4, 5, 6, 7>>

\* What the MAC holds for one station and TID: whether a block-ack agreement
\* is established (GetBaAgreementEstablished), the size of the head-of-queue
\* frame (PeekNextFrame; 0: no frame), and the narrowest RU, in tones, on
\* which that frame meets the size and time limits
Frame(ba, size, need) == [ba |-> ba, size |-> size, need |-> need]
EmptyQueue == Frame(TRUE, 0, 0)

\* IsWithinSizeAndTimeLimits (mpdu, muTxVector, 0, txopLimit), line 416,
\* muTxVector carrying an RU of ruTones tones
IsWithinSizeAndTimeLimits(frame, ruTones) == frame.need <= ruTones

\* ruIt->first at line 414, ruIt standing at the 1-based position p of ruType
RuAt(ruType, p, ub) ==
  IF p <= Len(ruType) THEN ruType[p][1]
  ELSE IF ub = "high" THEN RU_2x996_TONE ELSE 0

-----------------------------------------------------------------------------
(* m_txVector and m_txParams *)

EmptyTxVector == [users |-> << >>, length |-> 0]

RuSpec(primary80MHz, ruType, index) ==
  [primary80MHz |-> primary80MHz, ruType |-> ruType, index |-> index]

\* lines 83-134: staSeq lists the stations of the std::map argument in
\* address order, each with its AID; ruAssigned is walked in step and the
\* loop stops when either runs out. A later SetHeMuUserInfo of the same
\* STA-ID replaces an earlier one.
InitTxVectorAndParams(staSeq, ruAssigned) ==
  LET n == Min2(Len(staSeq), Len(ruAssigned))
      taken == {staSeq[i].aid : i \in 1..n}
      lastOf(a) == CHOOSE i \in 1..n :
                     staSeq[i].aid = a /\ \A j \in 1..n : staSeq[j].aid = a => j <= i
  IN  [txVector |-> [users |-> [a \in taken |-> RuSpec(FALSE, ruAssigned[lastOf(a)][1], 1)],
                     length |-> 0],
       txParams |-> {staSeq[i].mac : i \in 1..n}]

\* a sequence of station records ordered by address, one per address (the
\* first inserted wins, as std::map::insert keeps the existing element)
RECURSIVE MapByMac(_, _)
MapByMac(seq, macs) ==
  IF macs = {} THEN <<>>
  ELSE LET m == CHOOSE x \in macs : \A y \in macs : x <= y
           i == CHOOSE k \in 1..Len(seq) :
                  seq[k].mac = m /\ \A j \in 1..Len(seq) : seq[j].mac = m => k <= j
       IN  <<seq[i]>> \o MapByMac(seq, macs \ {m})

-----------------------------------------------------------------------------
(* Locals of a call, as the variable last records them *)

\* ret is the source line of the return (or of the fault) that ended the call
LastNone ==
  [call |-> "none", ret |-> 0, fault |-> "none",
   \* SelectTxFormat: its argument, GetTxFormat () at entry, the format returned
   currTid |-> 0, ub |-> "none", prevFormat |-> "none", format |-> "none",
   \* SelectTxFormat, uplink path
   ulEntered |-> FALSE, users |-> {}, consulted |-> {}, maxBufferSize |-> 0,
   maxDuration |-> 0, granted |-> 0,
   \* SelectTxFormat, uplink path past lines 153 and 180: whether a TXOP is
   \* held, its remaining time and the response time, as the call found them
   timing |-> <<>>,
   \* SelectTxFormat, uplink path: whether GetAckSequenceForUlMu () is
   \* UL_MULTI_STA_BLOCK_ACK (TRUE when the path is not entered)
   multiStaBa |-> TRUE,
   \* SelectTxFormat, downlink path
   dlEntered |-> FALSE, start |-> 0, examined |-> <<>>, ruLen |-> 0, maxPos |-> 0,
   \* ComputeDlOfdmaInfo: m_dataInfo at entry and as rewritten, ruAssigned
   batch |-> <<>>, packed |-> <<>>, ruAssigned |-> <<>>,
   \* ComputeDlOfdmaInfo with an empty m_staInfo: the return line and the
   \* timing of the SelectTxFormat call it follows (a SelectTxFormat call
   \* keeps the selRet of a ComputeDlOfdmaInfo that immediately precedes it)
   selRet |-> 0, selTiming |-> <<>>,
   \* ComputeUlOfdmaInfo: the length of the trigger frame
   ulLength |-> 0]

NoDlInfo == [staInfo |-> <<>>, users |-> << >>]

\* grants are counted up to 2: "once" and "twice" are all the history tells apart
Granted(g, served) == [a \in DOMAIN g |-> IF a \in served THEN Min2(g[a] + 1, 2) ELSE g[a]]

-----------------------------------------------------------------------------
(* ComputeDlOfdmaInfo, lines 831-931 *)

\* whether GetNumberAndTypeOfRus reads past the end of bulksend (line 674)
ReadsPastBulksend(dataInfo) ==
  LET size2 == Len(Classify(dataInfo, "onoff"))
      size3 == Len(Classify(dataInfo, "bulksend"))
      size4 == Len(Classify(dataInfo, "http"))
  IN  ~(size3 = 0 \/ size2 + size3 + size4 <= 1) /\ size2 > 7 /\ size3 < size2

\* the line at which a fault of GetNumberAndTypeOfRus is raised
PackFaultSite(fault) ==
  CASE fault = "assert" -> 641
    [] fault = "ub" -> 674
    [] OTHER -> 652

\* lines 889-915: the RU of each served station. staInfo is
\* dlOfdmaInfo.staInfo in address order; its k-th station takes the k-th entry
DlUsers(staInfo, ruAssigned) ==
  LET lastOf(a) == CHOOSE i \in 1..Len(staInfo) :
                     staInfo[i].aid = a
                     /\ \A j \in 1..Len(staInfo) : staInfo[j].aid = a => j <= i
  IN  [a \in {staInfo[i].aid : i \in 1..Len(staInfo)} |->
         RuSpec(TRUE, ruAssigned[lastOf(a)][1], ruAssigned[lastOf(a)][2])]

\* lines 854-930, res being what GetNumberAndTypeOfRus returned, staInfo the
\* map built at lines 854-861, init the result of line 876
DlResult(res, staInfo, init, users) ==
  LET nRusAssigned == Len(res.ruAssigned)
      passes == IF bw = 160 THEN 2 ELSE 1
      fault == IF res.fault /= "none" THEN res.fault
               ELSE IF nRusAssigned > Len(res.dataInfo) THEN "assert"
               ELSE IF passes * nRusAssigned > Len(staInfo) THEN "assert"
               ELSE "none"
      site == IF res.fault /= "none" THEN PackFaultSite(res.fault)
              ELSE IF nRusAssigned > Len(res.dataInfo) THEN 856
              ELSE IF passes * nRusAssigned > Len(staInfo) THEN 905
              ELSE 930
      \* lines 866-872
      cursor == IF nRusAssigned < Len(res.dataInfo) THEN res.dataInfo[nRusAssigned + 1].aid
                ELSE m_startStation
  IN  [fault |-> fault, site |-> site, ruAssigned |-> res.ruAssigned,
       dataInfo |-> res.dataInfo, startStation |-> cursor,
       txVector |-> [users |-> users, length |-> 0],
       txParams |-> init.txParams,
       dlInfo |-> [staInfo |-> staInfo, users |-> users]]

\* lines 854-861: the stations that get an RU, as the std::map holds them
DlStaInfo(res) ==
  MapByMac(res.dataInfo,
           {res.dataInfo[i].mac : i \in 1..Min2(Len(res.ruAssigned), Len(res.dataInfo))})

DlServed(res, staInfo) ==
  DlResult(res, staInfo, InitTxVectorAndParams(staInfo, res.ruAssigned),
           DlUsers(staInfo, res.ruAssigned))

DlPacked(res) == DlServed(res, DlStaInfo(res))

\* the call with a non-empty m_staInfo: the values it leaves behind
DlOutcome(ub) == DlPacked(GetNumberAndTypeOfRus(bw, Len(m_dataInfo), m_dataInfo, ub))

\* the effect of the call on the manager, out being DlOutcome
DlReturn(out) ==
  /\ last' = [LastNone EXCEPT !.call = "ComputeDlOfdmaInfo", !.ret = out.site,
                              !.fault = out.fault, !.batch = m_dataInfo,
                              !.packed = out.dataInfo,
                              !.ruAssigned = out.ruAssigned]
  /\ IF out.fault /= "none"
     THEN /\ pc' = "fault"
          /\ UNCHANGED <<mgrVars, grants>>
     ELSE /\ pc' = "idle"
          /\ m_startStation' = out.startStation
          /\ m_dataInfo' = out.dataInfo
          /\ m_txVector' = out.txVector
          /\ m_txParams' = out.txParams
          /\ dlInfo' = out.dlInfo
          /\ grants' = Granted(grants, DOMAIN out.txVector.users)
          /\ UNCHANGED <<m_staInfo, txFormat>>

ComputeDlOfdmaInfo ==
  /\ pc = "dl"
  /\ IF m_staInfo = <<>>
     THEN \* lines 836-839
          /\ dlInfo' = NoDlInfo
          /\ last' = [LastNone EXCEPT !.call = "ComputeDlOfdmaInfo", !.ret = 838,
                                      !.selRet = last.ret, !.selTiming = last.timing]
          /\ pc' = "idle"
          /\ UNCHANGED <<m_startStation, m_staInfo, m_dataInfo, m_txVector, m_txParams,
                         txFormat, grants>>
     ELSE \E ub \in (IF ReadsPastBulksend(m_dataInfo) THEN UbOutcomes ELSE {"none"}) :
            DlReturn(DlOutcome(ub))
  /\ UNCHANGED <<cfgVars, envVars>>

-----------------------------------------------------------------------------
(* Durations, in microseconds *)

\* GetPpduMaxTime (WIFI_PREAMBLE_HE_MU), line 187
PpduMaxTime == 5484

\* 0xffffffff at line 206: "not limited". TLC's integers are 32-bit signed,
\* so the model uses their largest value; what the code relies on is that
\* no other estimate exceeds it.
UnlimitedBuffer == 2147483647

\* WifiPhy::CalculateTxDuration (size, m_txVector, ...): a preamble plus a
\* time that grows with the size, in whole symbols
TxDuration(size) == 20 + 4 * (size \div 16)

\* WifiPhy::ConvertHeTbPpduDurationToLSigLength (5 GHz band)
ConvertHeTbPpduDurationToLSigLength(duration) == ((duration - 20 + 3) \div 4) * 3 - 5

-----------------------------------------------------------------------------
(* SelectTxFormat, lines 136-459. The argument in holds what the call is   *)
(* given and what its queries of the MAC and the PHY answer:               *)
(*   currTid        mpdu->GetHeader ().GetQosTid ()                        *)
(*   multiStaBa     GetAckSequenceForUlMu () == UL_MULTI_STA_BLOCK_ACK     *)
(*   txopHeld       GetTxopLimit ().IsStrictlyPositive ()                  *)
(*   txopRemaining  GetTxopRemaining ()                                    *)
(*   response       the response time of the exchange (lines 241-251, 369) *)

\* GetTxFormat () of the base class OfdmaManager: the format the preceding
\* decision returned
GetTxFormat == txFormat

\* line 150, with the uplink path also taken after a decision of any format
UlAttemptedAfterAnyFormat == m_enableUlOfdma

\* line 150
UlAttempted == m_enableUlOfdma /\ GetTxFormat = "DL_OFDMA"

\* line 222, with a zero estimate accepted
HasUlTrafficOrNone(maxBufferSize) == maxBufferSize >= 0

\* line 222
HasUlTraffic(maxBufferSize) == maxBufferSize > 0

\* lines 190-219 without std::max: the estimate is the last report decoded
RECURSIVE BufferFoldLast(_, _, _)
BufferFoldLast(users, maxBufferSize, read) ==
  IF users = <<>> THEN <<maxBufferSize, read>>
  ELSE LET a == Head(users)
           queueSize == bufferStatus[a]
       IN  IF a \notin Aids THEN BufferFoldLast(Tail(users), maxBufferSize, read)
           ELSE IF queueSize = 255
           THEN BufferFoldLast(Tail(users), m_ulPsduSize, read \cup {a})
           ELSE IF queueSize = 254
           THEN <<UnlimitedBuffer, read \cup {a}>>
           ELSE BufferFoldLast(Tail(users), queueSize * 256, read \cup {a})

\* line 195 with the test left out: every station of the TX vector is read
AssumedAssociated(a) == TRUE

\* lines 194-195: m_apMac->GetStaList ().find (userInfo.first) finds the AID
StillAssociated(a) == a \in Aids

\* lines 190-219: users is the STA-ID map of m_txVector in AID order; the
\* result is <<maxBufferSize, AIDs whose buffer status was read>>
RECURSIVE BufferFold(_, _, _)
BufferFold(users, maxBufferSize, read) ==
  IF users = <<>> THEN <<maxBufferSize, read>>
  ELSE LET a == Head(users)
           queueSize == bufferStatus[a]
       IN  IF ~StillAssociated(a) THEN BufferFold(Tail(users), maxBufferSize, read)
           ELSE IF queueSize = 255
           THEN BufferFold(Tail(users), Max2(maxBufferSize, m_ulPsduSize), read \cup {a})
           ELSE IF queueSize = 254
           THEN <<UnlimitedBuffer, read \cup {a}>>
           ELSE BufferFold(Tail(users), Max2(maxBufferSize, queueSize * 256), read \cup {a})

\* line 153 with the test left out
NullPsduSizeIgnored == FALSE

\* line 153: NS_ABORT_MSG_IF (m_ulPsduSize == 0, ...)
NullPsduSize == m_ulPsduSize = 0

\* line 284 with the test left out: no duration is too short
NeverTooShort(maxDuration, minDuration) == FALSE

\* line 284
TooShort(maxDuration, minDuration) == maxDuration < minDuration

\* lines 150-306. kind is "skip" when the uplink path is not taken or falls
\* through to the downlink path
UlOutcome(in) ==
  LET users == SortedAids(DOMAIN m_txVector.users)
      fold == BufferFold(users, 0, {})
      maxBufferSize == fold[1]
      params == {staList[a] : a \in (DOMAIN m_txVector.users) \cap Aids}
      ppdu == PpduMaxTime
      short == in.txopHeld /\ in.response > in.txopRemaining
      maxDuration == IF in.txopHeld THEN Min2(ppdu, in.txopRemaining - in.response)
                     ELSE ppdu
      bufferTxTime == TxDuration(maxBufferSize)
      minDuration == TxDuration(m_ulPsduSize)
      base == [kind |-> "skip", site |-> 0, entered |-> TRUE,
               users |-> DOMAIN m_txVector.users, consulted |-> fold[2],
               maxBufferSize |-> maxBufferSize, maxDuration |-> 0, granted |-> 0,
               params |-> params,
               timing |-> <<in.txopHeld, in.txopRemaining, in.response>>,
               multiStaBa |-> in.multiStaBa]
  IN  IF ~UlAttempted
      THEN [base EXCEPT !.entered = FALSE, !.users = {}, !.consulted = {},
                        !.maxBufferSize = 0, !.timing = <<>>, !.multiStaBa = TRUE]
      ELSE IF NullPsduSize
      THEN [base EXCEPT !.kind = "abort", !.site = 153, !.consulted = {},
                        !.maxBufferSize = 0, !.timing = <<>>]
      ELSE IF ~in.multiStaBa
      THEN [base EXCEPT !.kind = "abort", !.site = 180, !.consulted = {},
                        !.maxBufferSize = 0, !.timing = <<>>]
      ELSE IF ~HasUlTraffic(maxBufferSize) THEN base
      ELSE IF short THEN [base EXCEPT !.kind = "giveup", !.site = 263]
      ELSE IF bufferTxTime < maxDuration
      THEN [base EXCEPT !.kind = "ul", !.site = 304, !.maxDuration = maxDuration,
                        !.granted = bufferTxTime]
      ELSE IF TooShort(maxDuration, minDuration)
      THEN [base EXCEPT !.kind = "giveup", !.site = 294, !.maxDuration = maxDuration]
      ELSE [base EXCEPT !.kind = "ul", !.site = 304, !.maxDuration = maxDuration,
                        !.granted = maxDuration]

\* lines 389-436 for one station: the 1-based position in TidOrder of the
\* TID that adds the station (0: none), the largest position whose RU entry
\* was read, and whether a read past the end of ruType crashed
ScanTids(aid, currTid, ruType, ub) ==
  LET order == TidOrder(currTid)
      primaryAc == QosUtilsMapTidToAc(currTid)
      st(p) == queue[aid][order[p]]
      peeked(p) == /\ QosUtilsMapTidToAc(order[p]) >= primaryAc
                   /\ st(p).ba
                   /\ st(p).size > 0
      within(p) == IsWithinSizeAndTimeLimits(st(p), RuAt(ruType, p, ub))
      hits == {p \in 1..9 : peeked(p) /\ within(p)}
      hit == IF hits = {} THEN 0 ELSE CHOOSE p \in hits : \A q \in hits : p <= q
      reads == {p \in 1..9 : peeked(p) /\ (hit = 0 \/ p <= hit)}
      maxRead == IF reads = {} THEN 0 ELSE CHOOSE p \in reads : \A q \in reads : q <= p
  IN  [hit |-> hit,
       tid |-> IF hit = 0 THEN 0 ELSE order[hit],
       size |-> IF hit = 0 THEN 0 ELSE st(hit).size,
       maxRead |-> maxRead,
       crash |-> ub = "crash" /\ maxRead > Len(ruType)]

\* lines 383-444 with the loop left only once the batch exceeds NStations
RECURSIVE SelectionLoopPastLimit(_, _, _, _, _, _, _)
SelectionLoopPastLimit(circ, i, currTid, ruType, ub, batch, maxPos) ==
  LET aid == circ[i]
      scan == ScanTids(aid, currTid, ruType, ub)
      cand == [mac |-> staList[aid], size |-> scan.size, aid |-> aid, tid |-> scan.tid]
      batch1 == IF scan.hit = 0 THEN batch ELSE Append(batch, cand)
      pos1 == Max2(maxPos, scan.maxRead)
  IN  IF scan.crash
      THEN [batch |-> batch, examined |-> i, maxPos |-> pos1, crash |-> TRUE]
      ELSE IF Len(batch1) <= m_nStations /\ i < Len(circ)
      THEN SelectionLoopPastLimit(circ, i + 1, currTid, ruType, ub, batch1, pos1)
      ELSE [batch |-> batch1, examined |-> i, maxPos |-> pos1, crash |-> FALSE]

\* lines 383-444: the do-while over the stations, circ being the table in
\* circular order from the cursor and i the station examined next
RECURSIVE SelectionLoop(_, _, _, _, _, _, _)
SelectionLoop(circ, i, currTid, ruType, ub, batch, maxPos) ==
  LET aid == circ[i]
      scan == ScanTids(aid, currTid, ruType, ub)
      cand == [mac |-> staList[aid], size |-> scan.size, aid |-> aid, tid |-> scan.tid]
      batch1 == IF scan.hit = 0 THEN batch ELSE Append(batch, cand)
      pos1 == Max2(maxPos, scan.maxRead)
  IN  IF scan.crash
      THEN [batch |-> batch, examined |-> i, maxPos |-> pos1, crash |-> TRUE]
      ELSE IF Len(batch1) < m_nStations /\ i < Len(circ)
      THEN SelectionLoop(circ, i + 1, currTid, ruType, ub, batch1, pos1)
      ELSE [batch |-> batch1, examined |-> i, maxPos |-> pos1, crash |-> FALSE]

\* lines 439-443 and 457 with the iterator not advanced: the cursor is the
\* last station examined
NextCursorLastExamined(circ, examined) == circ[examined]

\* lines 439-443 and 457: the station that circularly follows the last one
\* examined, examined being the number of stations the loop went through
NextCursor(circ, examined) ==
  IF examined < Len(circ) THEN circ[examined + 1] ELSE circ[1]

\* lines 373-379 and 448-454 with ForceDlOfdma ignored
EmptyFormatAlwaysDl == "DL_OFDMA"

\* lines 373-379 and 448-454: the format returned with no receiver station
EmptyFormat == IF m_forceDlOfdma THEN "DL_OFDMA" ELSE "NON_OFDMA"

\* lines 353-458: start is the cursor after lines 309-317, circ the table in
\* circular order from it, pack the tentative packing of lines 335-337, init
\* the result of line 353 and loop that of the selection loop
DlDecision(in, start, circ, pack, init, loop) ==
  LET negative == in.txopHeld /\ in.txopRemaining - in.response < 0
      next == NextCursor(circ, loop.examined)
      base == [kind |-> "ret", format |-> "DL_OFDMA", site |-> 458, start |-> start,
               startStation |-> start, batch |-> <<>>, examined |-> <<>>,
               ruLen |-> Len(pack.ruAssigned), maxPos |-> 0,
               txVector |-> init.txVector, txParams |-> init.txParams]
      scanned == [base EXCEPT !.examined = Slice(circ, 1, loop.examined),
                              !.maxPos = loop.maxPos]
  IN  IF pack.fault /= "none"
      THEN [base EXCEPT !.kind = pack.fault, !.site = PackFaultSite(pack.fault)]
      ELSE IF negative
      THEN [base EXCEPT !.format = EmptyFormat,
                        !.site = IF m_forceDlOfdma THEN 376 ELSE 379]
      ELSE IF loop.crash
      THEN [scanned EXCEPT !.kind = "ub", !.site = 414]
      ELSE IF loop.batch = <<>>
      THEN [scanned EXCEPT !.format = EmptyFormat,
                           !.site = IF m_forceDlOfdma THEN 451 ELSE 454]
      ELSE [scanned EXCEPT !.startStation = next, !.batch = loop.batch]

\* lines 339-348: the guess, the first min (NStations, table size) stations
\* from the cursor, as the std::map of line 339 holds them
Guess(circ) ==
  LET aids == SortedByMac(Range(Slice(circ, 1, Min2(m_nStations, Len(circ)))), staList)
  IN  [i \in 1..Len(aids) |-> [mac |-> staList[aids[i]], aid |-> aids[i]]]

DlScan(in, start, circ, pack) ==
  DlDecision(in, start, circ, pack,
             InitTxVectorAndParams(Guess(circ), pack.ruAssigned),
             SelectionLoop(circ, 1, in.currTid, pack.ruAssigned, in.ub, <<>>, 0))

DlFrom(in, start) ==
  DlScan(in, start, CircularFrom(start),
         GetNumberAndTypeOfRus(bw, m_nStations, <<>>, in.ub))

\* lines 308-458
DlSelection(in) ==
  DlFrom(in, IF m_startStation \in Aids THEN m_startStation
             ELSE CHOOSE a \in Aids : \A b \in Aids : a <= b)

\* whether the scan of the call reads ruType past its end (line 414)
PastRuType(ul, dl) ==
  /\ ul.kind = "skip"
  /\ dl.kind = "ret"
  /\ dl.site \notin {376, 379}
  /\ dl.maxPos > dl.ruLen

ReadsPastRuType(in) == PastRuType(UlOutcome(in), DlSelection([in EXCEPT !.ub = "low"]))

\* lines 263 and 294 returning NON_OFDMA
AbandonFormatNonOfdma == "NON_OFDMA"

\* lines 263 and 294: return DL_OFDMA
AbandonFormat == "DL_OFDMA"

\* lines 259-260 and 290-291 left out: the sequence keeps its candidates
NotCleared(seq) == seq

\* m_dataInfo.clear () and m_staInfo.clear (), lines 259-260 and 290-291
Cleared(seq) == <<>>

\* the effect of the call, ul and dl being what the two paths compute
SelectTxFormatReturn(in, ul, dl) ==
  /\ pc = "idle"
  /\ LET rec == [LastNone EXCEPT !.call = "SelectTxFormat", !.currTid = in.currTid,
                                 !.ub = in.ub, !.prevFormat = GetTxFormat,
                                 !.ulEntered = ul.entered, !.users = ul.users,
                                 !.consulted = ul.consulted,
                                 !.maxBufferSize = ul.maxBufferSize,
                                 !.maxDuration = ul.maxDuration, !.granted = ul.granted,
                                 !.timing = ul.timing, !.multiStaBa = ul.multiStaBa,
                                 !.selRet = IF last.call = "ComputeDlOfdmaInfo"
                                            THEN last.selRet ELSE 0]
     IN  CASE ul.kind = "abort" ->
                \* lines 153 and 180
                /\ pc' = "fault"
                /\ last' = [rec EXCEPT !.ret = ul.site, !.fault = "abort"]
                /\ UNCHANGED mgrVars
           [] ul.kind = "giveup" ->
                \* lines 259-263 and 290-294
                /\ m_dataInfo' = Cleared(m_dataInfo)
                /\ m_staInfo' = Cleared(m_staInfo)
                /\ txFormat' = AbandonFormat
                /\ pc' = "dl"
                /\ last' = [rec EXCEPT !.ret = ul.site, !.format = AbandonFormat]
                /\ UNCHANGED <<m_startStation, m_txVector, m_txParams, dlInfo>>
           [] ul.kind = "ul" ->
                \* lines 298-304
                /\ m_txVector' = [m_txVector EXCEPT
                                    !.length = ConvertHeTbPpduDurationToLSigLength(ul.granted)]
                /\ m_txParams' = ul.params
                /\ txFormat' = "UL_OFDMA"
                /\ pc' = "ul"
                /\ last' = [rec EXCEPT !.ret = ul.site, !.format = "UL_OFDMA"]
                /\ UNCHANGED <<m_startStation, m_staInfo, m_dataInfo, dlInfo>>
           [] ul.kind = "skip" /\ dl.kind /= "ret" ->
                \* the tentative packing throws, or the scan reads past ruType
                /\ pc' = "fault"
                /\ last' = [rec EXCEPT !.ret = dl.site, !.fault = dl.kind,
                                       !.dlEntered = TRUE, !.start = dl.start,
                                       !.examined = dl.examined, !.ruLen = dl.ruLen,
                                       !.maxPos = dl.maxPos]
                /\ UNCHANGED mgrVars
           [] OTHER ->
                /\ m_startStation' = dl.startStation
                /\ m_dataInfo' = dl.batch
                /\ m_staInfo' = dl.batch
                /\ m_txVector' = dl.txVector
                /\ m_txParams' = dl.txParams
                /\ txFormat' = dl.format
                /\ pc' = IF dl.format = "DL_OFDMA" THEN "dl" ELSE "idle"
                /\ last' = [rec EXCEPT !.ret = dl.site, !.format = dl.format,
                                       !.dlEntered = TRUE, !.start = dl.start,
                                       !.examined = dl.examined, !.ruLen = dl.ruLen,
                                       !.maxPos = dl.maxPos, !.batch = dl.batch]
                /\ UNCHANGED dlInfo
  /\ UNCHANGED <<cfgVars, envVars, grants>>

SelectTxFormatWith(in) == SelectTxFormatReturn(in, UlOutcome(in), DlSelection(in))

\* arg holds currTid, multiStaBa, txopHeld, txopRemaining and response; what a
\* read past the end of ruType yields is left open
SelectTxFormat(arg) ==
  LET in0 == [currTid |-> arg.currTid, multiStaBa |-> arg.multiStaBa,
              txopHeld |-> arg.txopHeld, txopRemaining |-> arg.txopRemaining,
              response |-> arg.response, ub |-> "none"]
  IN  \E ub \in (IF ReadsPastRuType(in0) THEN UbOutcomes ELSE {"none"}) :
        SelectTxFormatWith([in0 EXCEPT !.ub = ub])

-----------------------------------------------------------------------------
(* ComputeUlOfdmaInfo, lines 949-961 *)

ComputeUlOfdmaInfo ==
  /\ pc = "ul"
  /\ pc' = "idle"
  /\ last' = [LastNone EXCEPT !.call = "ComputeUlOfdmaInfo", !.ret = 960,
                              !.users = DOMAIN m_txVector.users,
                              !.ulLength = m_txVector.length]
  /\ UNCHANGED <<cfgVars, envVars, mgrVars, grants>>

-----------------------------------------------------------------------------
(* The environment: stations leave the table between two decisions *)

MinAssociated == 2   \* stations leave while more than MinAssociated are associated

Disassociate(a) ==
  /\ pc = "idle"
  /\ a \in Aids
  /\ Cardinality(Aids) > MinAssociated
  /\ staList' = [b \in Aids \ {a} |-> staList[b]]
  /\ grants' = [b \in (DOMAIN grants) \ {a} |-> 0]
  /\ last' = [LastNone EXCEPT !.call = "Disassociate"]
  /\ UNCHANGED <<cfgVars, bw, queue, bufferStatus, bulksend1, onoff1, http1, mgrVars, pc>>

-----------------------------------------------------------------------------
(* Initial states *)

Tids == 0..7

NoTraffic == [t \in Tids |-> EmptyQueue]
OneFrame(tid, size, need) ==
  [t \in Tids |-> IF t = tid THEN Frame(TRUE, size, need) ELSE EmptyQueue]

\* the manager as constructed (line 72); the format of the base class is
\* NON_OFDMA until the first decision
InitManager ==
  /\ m_startStation = 0
  /\ m_staInfo = <<>>
  /\ m_dataInfo = <<>>
  /\ m_txVector = EmptyTxVector
  /\ m_txParams = {}
  /\ txFormat = "NON_OFDMA"
  /\ dlInfo = NoDlInfo
  /\ pc = "idle"
  /\ last = LastNone

\* what a SelectTxFormat call is given: no TXOP held, or a TXOP whose
\* remaining time leaves -10 or 88 us after the response
Timing ==
  {[txopHeld |-> FALSE, txopRemaining |-> 0, response |-> 50]}
    \cup {[txopHeld |-> TRUE, txopRemaining |-> r, response |-> 50] : r \in {40, 138}}

Args(tids, acks) ==
  {[currTid |-> t, multiStaBa |-> m, txopHeld |-> x.txopHeld,
    txopRemaining |-> x.txopRemaining, response |-> x.response] :
      t \in tids, m \in acks, x \in Timing}

Init ==
  /\ InitManager
  /\ m_nStations = 4
  /\ m_forceDlOfdma \in BOOLEAN
  /\ \E c \in {<<TRUE, 300>>, <<TRUE, 0>>, <<FALSE, 500>>} :
       m_enableUlOfdma = c[1] /\ m_ulPsduSize = c[2]
  /\ bw = 20
  /\ staList = [a \in 1..MaxAid |-> 10 + a]
  /\ queue \in {[a \in 1..MaxAid |-> OneFrame(0, 1, RU_26_TONE)],
                [a \in 1..MaxAid |-> NoTraffic],
                [a \in 1..MaxAid |-> IF a = 2 THEN OneFrame(0, 1, RU_26_TONE) ELSE NoTraffic]}
  /\ bufferStatus \in [1..MaxAid -> {0, 1, 254, 255}]
  /\ onoff1 = {staList[a] : a \in 1..MaxAid}
  /\ bulksend1 = {}
  /\ http1 = {}
  /\ grants = << >>

Next ==
  \/ \E arg \in Args({0}, BOOLEAN) : SelectTxFormat(arg)
  \/ ComputeDlOfdmaInfo
  \/ ComputeUlOfdmaInfo
  \/ \E a \in 1..MaxAid : Disassociate(a)

Spec == Init /\ [][Next]_vars

\* Larger station tables under static demand: nOnoff, nBulk, nHttp stations
\* listed in onoff1, bulksend1, http1 and nNone stations listed nowhere, every
\* one with a frame of TID 0 that fits any RU; NStations is the table size.
\* layout gives the order of the addresses along the AIDs, pattern the sizes.
PackMacs(nOnoff, nBulk, nHttp, nNone) ==
  [i \in 1..nOnoff |-> 100 + i] \o [i \in 1..nBulk |-> 200 + i]
    \o [i \in 1..nHttp |-> 300 + i] \o [i \in 1..nNone |-> 400 + i]

PackInitWith(macs, layout, pattern, counted) ==
  /\ InitManager
  /\ m_nStations = Len(macs)
  /\ m_forceDlOfdma = FALSE
  /\ m_enableUlOfdma = FALSE
  /\ m_ulPsduSize = 500
  /\ staList = [a \in 1..Len(macs) |->
                  IF layout = "rising" THEN macs[a] ELSE macs[Len(macs) + 1 - a]]
  /\ queue = [a \in 1..Len(macs) |->
                OneFrame(0, IF pattern = "equal" THEN 1 ELSE 1 + (a % MaxFrame), RU_26_TONE)]
  /\ bufferStatus = [a \in 1..Len(macs) |-> 0]
  /\ onoff1 = {m \in Range(macs) : m \div 100 = 1}
  /\ bulksend1 = {m \in Range(macs) : m \div 100 = 2}
  /\ http1 = {m \in Range(macs) : m \div 100 = 3}
  /\ grants = IF counted THEN [a \in 1..Len(macs) |-> 0] ELSE << >>

PackInit ==
  /\ bw \in {20, 40, 80, 160}
  /\ \/ \E nOnoff \in 0..MaxOnoff, nBulk \in 0..MaxBulk, nHttp \in 0..MaxHttp,
           nNone \in 0..MaxNone, layout \in {"rising", "falling"},
           pattern \in {"equal", "mixed"} :
          /\ nOnoff + nBulk + nHttp + nNone > 0
          /\ PackInitWith(PackMacs(nOnoff, nBulk, nHttp, nNone), layout, pattern, FALSE)
     \* the class tables left empty
     \/ \E nNone \in 1..MaxUnlisted, layout \in {"rising", "falling"},
           pattern \in {"equal", "mixed"} :
          PackInitWith(PackMacs(0, 0, 0, nNone), layout, pattern, FALSE)

PackNext ==
  \/ \E arg \in {x \in Args({0}, {TRUE}) : ~x.txopHeld} : SelectTxFormat(arg)
  \/ ComputeDlOfdmaInfo

PackSpec == PackInit /\ [][PackNext]_vars

\* Batches with a bulksend candidate and few onoff ones at 20 MHz, where the
\* packing takes the mixed branch
MixInit ==
  /\ bw = 20
  /\ \E nOnoff \in 0..MixOnoff, nBulk \in 1..MixBulk, nHttp \in 0..MixHttp,
        layout \in {"rising", "falling"}, pattern \in {"equal", "mixed"} :
       PackInitWith(PackMacs(nOnoff, nBulk, nHttp, 0), layout, pattern, FALSE)

MixSpec == MixInit /\ [][PackNext]_vars

\* Class lists of up to MaxSort onoff candidates and at most one http
\* candidate, the head-of-queue frame of each station of any size
SortInit ==
  /\ bw = 20
  /\ \E nOnoff \in 0..MaxSort, nHttp \in 0..1 :
       LET macs == PackMacs(nOnoff, 0, nHttp, 0)
       IN  /\ nOnoff + nHttp > 0
           /\ InitManager
           /\ m_nStations = Len(macs)
           /\ m_forceDlOfdma = FALSE
           /\ m_enableUlOfdma = FALSE
           /\ m_ulPsduSize = 500
           /\ staList = macs
           /\ \E size \in [1..Len(macs) -> 1..MaxFrame] :
                queue = [a \in 1..Len(macs) |-> OneFrame(0, size[a], RU_26_TONE)]
           /\ bufferStatus = [a \in 1..Len(macs) |-> 0]
           /\ onoff1 = {m \in Range(macs) : m \div 100 = 1}
           /\ bulksend1 = {}
           /\ http1 = {m \in Range(macs) : m \div 100 = 3}
           /\ grants = << >>

SortSpec == SortInit /\ [][PackNext]_vars

\* Static demand with every station listed in a class table, and the grants
\* of each station counted
FairInit ==
  /\ bw \in {20, 40}
  /\ \E nOnoff \in 0..MaxFair, nBulk \in 0..MaxFair, nHttp \in 0..MaxFair,
        layout \in {"rising", "falling"}, pattern \in {"equal", "mixed"} :
       /\ nOnoff + nBulk + nHttp > 0
       /\ PackInitWith(PackMacs(nOnoff, nBulk, nHttp, 0), layout, pattern, TRUE)

FairSpec == FairInit /\ [][PackNext]_vars

\* Three stations whose queues differ per TID, for the scan of lines 389-436
ScanQueues ==
  {OneFrame(0, 1, RU_26_TONE),
   NoTraffic,
   [OneFrame(5, 2, RU_26_TONE) EXCEPT ![0] = Frame(TRUE, 1, RU_2x996_TONE)],
   [OneFrame(1, 2, RU_26_TONE) EXCEPT ![0] = Frame(FALSE, 1, RU_26_TONE)],
   OneFrame(6, 1, RU_26_TONE),
   [OneFrame(2, 2, RU_106_TONE) EXCEPT ![1] = Frame(TRUE, 1, RU_2x996_TONE + 1)]}

ScanInit ==
  /\ InitManager
  /\ m_nStations \in {1, 2, 4}
  /\ m_forceDlOfdma = FALSE
  /\ m_enableUlOfdma = FALSE
  /\ m_ulPsduSize = 500
  /\ bw = 20
  /\ staList = [a \in 1..MaxAid |-> 10 + a]
  /\ queue \in [1..MaxAid -> ScanQueues]
  /\ bufferStatus = [a \in 1..MaxAid |-> 0]
  /\ onoff1 = {staList[a] : a \in 1..MaxAid}
  /\ bulksend1 = {}
  /\ http1 = {}
  /\ grants = << >>

ScanNext ==
  \/ \E arg \in {x \in Args({0, 1, 5}, {TRUE}) : ~x.txopHeld} : SelectTxFormat(arg)
  \/ ComputeDlOfdmaInfo

ScanSpec == ScanInit /\ [][ScanNext]_vars

\* Stations with or without traffic, every timing of the TXOP, both settings
\* of ForceDlOfdma, and stations leaving: the runs in which the cursor moves
CursorInit ==
  /\ InitManager
  /\ m_nStations \in {1, 2, 4}
  /\ m_forceDlOfdma \in BOOLEAN
  /\ m_enableUlOfdma = FALSE
  /\ m_ulPsduSize = 500
  /\ bw = 20
  /\ staList = [a \in 1..MaxAid |-> 10 + a]
  /\ queue \in [1..MaxAid -> {OneFrame(0, 1, RU_26_TONE), NoTraffic}]
  /\ bufferStatus = [a \in 1..MaxAid |-> 0]
  /\ onoff1 = {staList[a] : a \in 1..MaxAid}
  /\ bulksend1 = {}
  /\ http1 = {}
  /\ grants = << >>

CursorNext ==
  \/ \E arg \in Args({0}, {TRUE}) : SelectTxFormat(arg)
  \/ ComputeDlOfdmaInfo
  \/ \E a \in 1..MaxAid : Disassociate(a)

CursorSpec == CursorInit /\ [][CursorNext]_vars

-----------------------------------------------------------------------------
(* Properties of the decision sequence *)

\* C1: a SelectTxFormat call returns UL_OFDMA only if EnableUlOfdma is set and
\* the preceding decision returned DL_OFDMA (so not on the first decision,
\* whose preceding format is NON_OFDMA, and not right after UL_OFDMA)
C1_UlOnlyAfterDl ==
  (last.call = "SelectTxFormat" /\ last.format = "UL_OFDMA")
    => (m_enableUlOfdma /\ last.prevFormat = "DL_OFDMA")

C1_UlReturned ==
  last.call = "SelectTxFormat" /\ last.format = "UL_OFDMA" /\ last.prevFormat = "DL_OFDMA"

\* C2, as stated: with the uplink path entered and a zero estimate the call
\* returns DL_OFDMA
C2_ZeroEstimateReturnsDl ==
  (last.call = "SelectTxFormat" /\ last.fault = "none"
     /\ last.ulEntered /\ last.maxBufferSize = 0)
    => last.format = "DL_OFDMA"

\* C2, amended: with the uplink path entered and a zero estimate the call takes
\* the downlink path and returns what that path returns, never UL_OFDMA:
\* DL_OFDMA, or NON_OFDMA, which requires ForceDlOfdma to be off and either
\* no eligible station or a TXOP too short for the response
C2_ZeroEstimateNeverUl ==
  (last.call = "SelectTxFormat" /\ last.fault = "none"
     /\ last.ulEntered /\ last.maxBufferSize = 0)
    => /\ last.dlEntered
       /\ last.format \in {"DL_OFDMA", "NON_OFDMA"}
       /\ last.format = "NON_OFDMA" => (~m_forceDlOfdma /\ last.ret \in {379, 454})
       /\ (last.ret = 458) = (last.batch /= <<>>)

C2_ZeroEstimateNonOfdma ==
  /\ last.call = "SelectTxFormat"
  /\ last.ulEntered
  /\ last.users /= {}
  /\ last.maxBufferSize = 0
  /\ last.format = "NON_OFDMA"

\* C3: on the uplink path the estimate is the maximum of the decoded reports
\* of the still-associated stations of the previous TX vector (255 decodes to
\* UlPsduSize, 254 to "not limited", v to v * 256); one report of 254 makes it
\* "not limited" whatever the others; when all report 255 it is UlPsduSize
\* and the duration computation is reached
C3_EstimateIsMaximum ==
  (last.call = "SelectTxFormat" /\ last.fault = "none" /\ last.ulEntered)
    => LET U == last.users \cap Aids
           decode(c) == IF c = 255 THEN m_ulPsduSize
                        ELSE IF c = 254 THEN UnlimitedBuffer ELSE c * 256
       IN  /\ \A a \in U : last.maxBufferSize >= decode(bufferStatus[a])
           /\ \/ \E a \in U : last.maxBufferSize = decode(bufferStatus[a])
              \/ U = {} /\ last.maxBufferSize = 0
           /\ (\E a \in U : bufferStatus[a] = 254) => last.maxBufferSize = UnlimitedBuffer
           /\ (U /= {} /\ \A a \in U : bufferStatus[a] = 255)
                => /\ last.maxBufferSize = m_ulPsduSize
                   /\ last.ret \in {263, 294, 304}

C3_UnlimitedAmongOthers ==
  /\ last.call = "SelectTxFormat"
  /\ last.ulEntered
  /\ last.fault = "none"
  /\ last.maxBufferSize = UnlimitedBuffer
  /\ \E a, b \in last.users \cap Aids :
       a < b /\ bufferStatus[a] = 254 /\ bufferStatus[b] \in {1, 255}
  /\ last.users \ Aids /= {}

-----------------------------------------------------------------------------
(* Properties of the RU packing and of the allocation *)

\* C4: GetNumberAndTypeOfRus never returns more entries than NStations nor
\* than the RU slots of the bandwidth (9, 18, 37, 74 at 20, 40, 80, 160 MHz),
\* in the tentative call of SelectTxFormat and in ComputeDlOfdmaInfo
C4_EntriesWithinCapacity ==
  LET slots == CASE bw = 20 -> 9 [] bw = 40 -> 18 [] bw = 80 -> 37 [] OTHER -> 74
  IN  /\ (last.call = "SelectTxFormat" /\ last.dlEntered)
        => (last.ruLen <= m_nStations /\ last.ruLen <= slots)
      /\ (last.call = "ComputeDlOfdmaInfo" /\ last.batch /= <<>>)
        => (Len(last.ruAssigned) <= m_nStations /\ Len(last.ruAssigned) <= slots)

\* 20 MHz, one bulksend candidate and nine others in the mixed branch: ten
\* entries for nine slots, the last at the 26-tone indices 10 and 11
C4_TenEntriesAt20MHz ==
  /\ last.call = "ComputeDlOfdmaInfo"
  /\ last.fault = "none"
  /\ bw = 20
  /\ Len(last.batch) = 10
  /\ Len(last.ruAssigned) = 10
  /\ last.ruAssigned[10] = <<RU_26_TONE, 11>>

\* C5: under static demand no station is granted an RU a second time before
\* every associated station has been granted one
C5_RoundRobinFairness ==
  \A a, b \in DOMAIN grants : grants[a] >= 2 => grants[b] >= 1

\* every station in onoff1: the two larger frames are served twice while the
\* station with the smaller frame has not been served
C5_SmallestStarved ==
  /\ \A a \in Aids : staList[a] \in onoff1
  /\ \E a, b \in DOMAIN grants : grants[a] = 2 /\ grants[b] = 0

\* C6: GetNumberAndTypeOfRus leaves in m_dataInfo a permutation of the batch
\* it found there
C6_BatchPermuted ==
  (last.call = "ComputeDlOfdmaInfo" /\ last.batch /= <<>>
     /\ (last.fault = "none" \/ last.ret \in {856, 905}))
    => /\ Len(last.packed) = Len(last.batch)
       /\ \A c \in Range(last.batch) \cup Range(last.packed) :
            Cardinality({i \in 1..Len(last.packed) : last.packed[i] = c})
              = Cardinality({i \in 1..Len(last.batch) : last.batch[i] = c})

\* a candidate listed in no class table is dropped from m_dataInfo
C6_UnlistedCandidateDropped ==
  /\ last.call = "ComputeDlOfdmaInfo"
  /\ last.fault = "none"
  /\ Len(last.packed) + 1 = Len(last.batch)
  /\ \E i \in 1..Len(last.batch) :
       /\ ClassOf(last.batch[i]) = "none"
       /\ last.batch[i] \notin Range(last.packed)

\* C7: in ComputeDlOfdmaInfo the RU entries are no more than the candidates of
\* the reordered m_dataInfo, so the assertion of line 856 holds
C7_CandidateForEveryEntry ==
  (last.call = "ComputeDlOfdmaInfo" /\ last.batch /= <<>>)
    => /\ Len(last.ruAssigned) <= Len(last.packed)
       /\ ~(last.fault = "assert" /\ last.ret = 856)

\* every candidate listed in a class table and none lost: the overflow branch
\* returns more entries than candidates and the assertion of line 856 fails
C7_AssertionFails ==
  /\ last.call = "ComputeDlOfdmaInfo"
  /\ last.fault = "assert"
  /\ last.ret = 856
  /\ Len(last.packed) = Len(last.batch)
  /\ Range(last.packed) = Range(last.batch)
  /\ Len(last.ruAssigned) > Len(last.packed)

\* C8: ComputeDlOfdmaInfo assigns the RU of entry i to the AID of the i-th
\* candidate of the reordered m_dataInfo
C8_PositionalAssignment ==
  (last.call = "ComputeDlOfdmaInfo" /\ last.batch /= <<>> /\ last.fault = "none")
    => \A i \in 1..Len(last.ruAssigned) :
         /\ i <= Len(m_dataInfo)
         /\ m_dataInfo[i].aid \in DOMAIN dlInfo.users
         /\ dlInfo.users[m_dataInfo[i].aid]
              = RuSpec(TRUE, last.ruAssigned[i][1], last.ruAssigned[i][2])

\* mixed branch: the first candidate of m_dataInfo is the bulksend one, and
\* the 106-tone unit of entry 1 goes to another station
C8_FirstEntryElsewhere ==
  /\ last.call = "ComputeDlOfdmaInfo"
  /\ last.fault = "none"
  /\ Len(last.ruAssigned) = Len(m_dataInfo)
  /\ last.ruAssigned[1] = <<RU_106_TONE, 1>>
  /\ ClassOf(m_dataInfo[1]) = "bulksend"
  /\ dlInfo.users[m_dataInfo[1].aid].ruType /= RU_106_TONE
  /\ \E a \in DOMAIN dlInfo.users : a /= m_dataInfo[1].aid /\ dlInfo.users[a].ruType = RU_106_TONE

\* C9: the selection loop examines the stations in circular AID order from
\* the cursor, each at most once, and stops as soon as the batch holds
\* NStations candidates; the batch holds at most NStations candidates, none
\* twice, all of them examined in this call
C9_SelectionBounded ==
  (last.call = "SelectTxFormat" /\ last.ret \in {451, 454, 458})
    => LET circ == CircularFrom(last.start)
           n == Len(last.examined)
           aids == [i \in 1..Len(last.batch) |-> last.batch[i].aid]
       IN  /\ n >= 1 /\ n <= Len(circ)
           /\ last.examined = Slice(circ, 1, n)
           /\ Len(last.batch) <= m_nStations
           /\ \A i, j \in 1..Len(aids) : i < j => aids[i] /= aids[j]
           /\ Range(aids) \subseteq Range(last.examined)
           /\ Len(last.batch) = m_nStations => aids[Len(aids)] = last.examined[n]
           /\ Len(last.batch) < m_nStations => n = Len(circ)
           /\ m_staInfo = last.batch /\ m_dataInfo = last.batch

C9_StoppedWhenFull ==
  /\ last.call = "SelectTxFormat"
  /\ last.ret = 458
  /\ Len(last.batch) = m_nStations
  /\ Len(last.examined) < Cardinality(Aids)
  /\ last.start /= 1

\* C10: an examined station is added to the batch exactly when a TID of the
\* order {currTid, 1, 2, 0, 3, 4, 5, 6, 7} has an access category not lower
\* than the primary one, a block-ack agreement, a head-of-queue frame, and that
\* frame within the limits on the RU computed for NStations stations; the TID
\* recorded is the first such TID
C10_AddedIffEligible ==
  (last.call = "SelectTxFormat" /\ last.dlEntered /\ last.ret \notin {376, 379, 641, 652})
    => LET order == TidOrder(last.currTid)
           ruTones == DegenerateRuType(bw, m_nStations)
           ok(a, p) == /\ QosUtilsMapTidToAc(order[p]) >= QosUtilsMapTidToAc(last.currTid)
                       /\ queue[a][order[p]].ba
                       /\ queue[a][order[p]].size > 0
                       /\ IsWithinSizeAndTimeLimits(queue[a][order[p]], ruTones)
           added(a) == \E i \in 1..Len(last.batch) : last.batch[i].aid = a
       IN  /\ last.fault = "none"
           /\ \A a \in Range(last.examined) :
                /\ added(a) = (\E p \in 1..9 : ok(a, p))
                /\ \A i \in 1..Len(last.batch) :
                     last.batch[i].aid = a
                       => \E p \in 1..9 : /\ ok(a, p)
                                          /\ \A q \in 1..(p - 1) : ~ok(a, q)
                                          /\ last.batch[i].tid = order[p]

\* the call returns, and a station whose only eligible frame is on a TID whose
\* position lies past the end of the RU list is left out of the batch
C10_EligibleStationLeftOut ==
  /\ last.call = "SelectTxFormat"
  /\ last.fault = "none"
  /\ last.ret \in {454, 458}
  /\ last.maxPos > last.ruLen
  /\ \E a \in Range(last.examined) :
       /\ \A i \in 1..Len(last.batch) : last.batch[i].aid /= a
       /\ \E t \in Tids :
            /\ QosUtilsMapTidToAc(t) >= QosUtilsMapTidToAc(last.currTid)
            /\ queue[a][t].ba
            /\ queue[a][t].size > 0
            /\ IsWithinSizeAndTimeLimits(queue[a][t], DegenerateRuType(bw, m_nStations))

-----------------------------------------------------------------------------
(* Properties of the cursor *)

FirstAid == CHOOSE a \in Aids : \A b \in Aids : a <= b

\* C11: after every SelectTxFormat call that takes the downlink path and after
\* every ComputeDlOfdmaInfo call the cursor is the AID of an associated
\* station; a cursor that names no associated station at entry to the downlink
\* path is reset to the first AID before the selection starts
C11_CursorAssociated ==
  [][/\ (last'.call = "SelectTxFormat" /\ last'.dlEntered /\ last'.fault = "none")
          => /\ m_startStation' \in Aids'
             /\ last'.start = IF m_startStation \in Aids THEN m_startStation ELSE FirstAid
     /\ (last'.call = "ComputeDlOfdmaInfo" /\ last'.fault = "none")
          => m_startStation' \in Aids']_vars

\* ComputeDlOfdmaInfo returned after the overflow branch read past the end of
\* bulksend, and the cursor is the AID field of an element read there
C11_CursorFromOverRead ==
  /\ last.call = "ComputeDlOfdmaInfo"
  /\ last.fault = "none"
  /\ ReadsPastBulksend(last.batch)
  /\ Len(last.ruAssigned) < Len(last.packed)
  /\ last.packed[Len(last.ruAssigned) + 1] = NullCandidate
  /\ m_startStation = NullCandidate.aid
  /\ m_startStation \notin Aids

\* C12: when the downlink path returns DL_OFDMA with a non-empty batch the
\* cursor is the station that circularly follows the last station examined;
\* when the batch is empty or the remaining-TXOP check fails the cursor is the
\* one the entry reset left, and the batch is empty
C12_CursorAfterSelection ==
  (last.call = "SelectTxFormat" /\ last.dlEntered /\ last.fault = "none")
    => LET circ == CircularFrom(last.start)
           n == Len(last.examined)
       IN  /\ (last.ret = 458) = (last.batch /= <<>>)
           /\ last.ret = 458
                => /\ last.format = "DL_OFDMA"
                   /\ n >= 1
                   /\ m_startStation = circ[(n % Len(circ)) + 1]
           /\ last.ret /= 458
                => /\ last.ret \in {376, 379, 451, 454}
                   /\ m_startStation = last.start
                   /\ m_staInfo = <<>>

\* the loop stopped with the batch full before the table was exhausted, and
\* the cursor moved past the last station examined to one not examined
C12_CursorMovedOn ==
  /\ last.call = "SelectTxFormat"
  /\ last.ret = 458
  /\ Len(last.examined) < Cardinality(Aids)
  /\ m_startStation /= last.start
  /\ \A i \in 1..Len(last.examined) : last.examined[i] /= m_startStation

\* the AIDs of a sequence of candidates
AidsOf(seq) == {seq[i].aid : i \in 1..Len(seq)}

\* C13: when ComputeDlOfdmaInfo serves fewer candidates than were batched the
\* cursor becomes a candidate that was not served, and the next downlink
\* decision examines every unserved candidate before any station served in
\* this one; when every candidate is served the cursor is left alone
C13_ResumeAtUnserved ==
  [][/\ (last'.call = "ComputeDlOfdmaInfo" /\ last'.fault = "none" /\ last'.batch /= <<>>)
          => LET unserved == AidsOf(last'.batch) \ DOMAIN dlInfo'.users
             IN  IF unserved /= {} THEN m_startStation' \in unserved
                 ELSE m_startStation' = m_startStation
     /\ (/\ last.call = "ComputeDlOfdmaInfo" /\ last.fault = "none" /\ last.batch /= <<>>
         /\ last'.call = "SelectTxFormat" /\ last'.dlEntered /\ last'.fault = "none")
          => LET served == DOMAIN dlInfo.users
                 unserved == AidsOf(last.batch) \ served
                 seen == last'.examined
             IN  \A u \in unserved :
                   \E i \in 1..Len(seen) :
                     /\ seen[i] = u
                     /\ \A j \in 1..(i - 1) : seen[j] \notin served]_vars

\* two candidates were left unserved and a station that was served lies
\* between them in AID order, where the next decision walks
C13_ServedBetweenUnserved ==
  /\ last.call = "ComputeDlOfdmaInfo"
  /\ last.fault = "none"
  /\ AidsOf(last.batch) = AidsOf(last.packed)
  /\ LET unserved == AidsOf(last.batch) \ DOMAIN dlInfo.users
     IN  /\ m_startStation \in unserved
         /\ \E u \in unserved, v \in DOMAIN dlInfo.users :
              m_startStation < v /\ v < u

-----------------------------------------------------------------------------
(* Properties of the uplink path *)

\* C14: when uplink reuse is abandoned for lack of time (return of line 263:
\* the response exceeds the remaining TXOP; return of line 294: the available
\* duration is below the time of a PSDU of UlPsduSize bytes) SelectTxFormat
\* returns DL_OFDMA with m_dataInfo and m_staInfo empty and the cursor
\* unchanged, and the ComputeDlOfdmaInfo that follows returns an empty
\* allocation
C14_AbandonClearsBatch ==
  [][/\ (last'.call = "SelectTxFormat" /\ last'.ret \in {263, 294})
          => /\ last'.ulEntered /\ last'.maxBufferSize > 0
             /\ last'.ret = 294 => last'.maxDuration < TxDuration(m_ulPsduSize)
             /\ last'.format = "DL_OFDMA"
             /\ m_dataInfo' = <<>>
             /\ m_staInfo' = <<>>
             /\ m_startStation' = m_startStation
             /\ pc' = "dl"
     /\ (last.call = "SelectTxFormat" /\ last.ret \in {263, 294} /\ last' /= last)
          => /\ last'.call = "ComputeDlOfdmaInfo"
             /\ last'.ret = 838
             /\ dlInfo' = NoDlInfo
             /\ m_startStation' = m_startStation]_vars

\* uplink reuse was abandoned because a PSDU of UlPsduSize bytes does not fit
\* the available duration, after a downlink decision that had served stations
C14_AbandonedTooShort ==
  /\ last.call = "SelectTxFormat"
  /\ last.ret = 294
  /\ last.users /= {}
  /\ dlInfo.users /= << >>
  /\ m_staInfo = <<>>
  /\ m_startStation \in Aids

\* C15: the SelectTxFormat call that follows a decision abandoned for lack of
\* time (and the empty ComputeDlOfdmaInfo after it) enters the uplink path
\* again, over the stations of the same TX vector, and does not reach the
\* station selection; with the same TXOP timing, the same buffer reports and
\* the same station table it is abandoned again at the same line
C15_AbandonRepeats ==
  [][/\ (last'.call = "SelectTxFormat" /\ last'.ret \in {263, 294})
          => (m_txVector' = m_txVector /\ last'.users = DOMAIN m_txVector.users)
     /\ (last.call = "SelectTxFormat" /\ last.ret \in {263, 294} /\ last' /= last)
          => (m_txVector' = m_txVector /\ last'.selRet = last.ret
              /\ last'.selTiming = last.timing)
     /\ (/\ last.call = "ComputeDlOfdmaInfo" /\ last.selRet \in {263, 294}
         /\ m_enableUlOfdma /\ last'.call = "SelectTxFormat")
          => /\ last'.ulEntered
             /\ ~last'.dlEntered
             /\ last'.users = DOMAIN m_txVector.users
             /\ last'.fault = "none" => last'.ret \in {263, 294, 304}
             /\ (last'.fault = "none" /\ last'.timing = last.selTiming)
                  => (last'.ret = last.selRet /\ last'.format = "DL_OFDMA")]_vars

\* the call that follows an abandoned decision and its empty
\* ComputeDlOfdmaInfo is abandoned at the same line
C15_AbandonedAgain ==
  /\ last.call = "SelectTxFormat"
  /\ last.ret = 294
  /\ last.selRet = 294
  /\ last.prevFormat = "DL_OFDMA"
  /\ last.users /= {}
  /\ ~last.dlEntered
  /\ dlInfo = NoDlInfo

\* C16, as stated: whenever SelectTxFormat returns UL_OFDMA a PSDU of
\* UlPsduSize bytes can be transmitted within the available duration (the
\* maximum PPDU duration, bounded by remaining TXOP minus response time when a
\* TXOP is held); when it cannot, the call returns DL_OFDMA, for every
\* positive estimate
C16_MinPsduFits ==
  (last.call = "SelectTxFormat" /\ last.fault = "none" /\ last.ulEntered
     /\ last.maxBufferSize > 0)
    => /\ last.ret \in {263, 294, 304}
       /\ last.format = "UL_OFDMA" => TxDuration(m_ulPsduSize) <= last.maxDuration
       /\ (last.ret /= 304 \/ TxDuration(m_ulPsduSize) > last.maxDuration)
            => last.format = "DL_OFDMA"

\* C16, amended: UL_OFDMA is returned either with the time of the buffer
\* estimate granted, when that time is strictly below the available duration
\* (whether or not a PSDU of UlPsduSize bytes fits), or with the whole
\* available duration granted, which is then at least the time of a PSDU of
\* UlPsduSize bytes; DL_OFDMA is returned at line 294 only when the time of
\* the estimate is not below the available duration and that duration is
\* below the time of a PSDU of UlPsduSize bytes
C16_MinPsduCheckedWhenBufferExceeds ==
  (last.call = "SelectTxFormat" /\ last.fault = "none" /\ last.ulEntered
     /\ last.maxBufferSize > 0)
    => LET bufferTxTime == TxDuration(last.maxBufferSize)
           minDuration == TxDuration(m_ulPsduSize)
       IN  /\ last.ret \in {263, 294, 304}
           /\ (last.ret = 304) = (last.format = "UL_OFDMA")
           /\ last.ret /= 304 => last.format = "DL_OFDMA"
           /\ last.ret = 304
                => /\ last.maxDuration <= PpduMaxTime
                   /\ \/ last.granted = bufferTxTime /\ bufferTxTime < last.maxDuration
                      \/ /\ last.granted = last.maxDuration
                         /\ bufferTxTime >= last.maxDuration
                         /\ minDuration <= last.maxDuration
                   /\ m_txVector.length = ConvertHeTbPpduDurationToLSigLength(last.granted)
           /\ last.ret = 294
                => (bufferTxTime >= last.maxDuration /\ last.maxDuration < minDuration)

\* UL_OFDMA returned for an estimate smaller than UlPsduSize although a PSDU
\* of UlPsduSize bytes does not fit the available duration
C16_UlGrantedBelowMinimum ==
  /\ last.call = "SelectTxFormat"
  /\ last.format = "UL_OFDMA"
  /\ last.maxBufferSize > 0
  /\ last.maxBufferSize < m_ulPsduSize
  /\ TxDuration(m_ulPsduSize) > last.maxDuration
  /\ last.granted < last.maxDuration

-----------------------------------------------------------------------------
(* Properties of the downlink path *)

\* lines 391-416 for a station and a TID, the RU being the one computed for
\* NStations stations: what makes the station a candidate
EligibleOn(a, tid, currTid) ==
  /\ QosUtilsMapTidToAc(tid) >= QosUtilsMapTidToAc(currTid)
  /\ queue[a][tid].ba
  /\ queue[a][tid].size > 0
  /\ IsWithinSizeAndTimeLimits(queue[a][tid], DegenerateRuType(bw, m_nStations))

-----------------------------------------------------------------------------
(* Properties of the fatal outcomes *)

\* C18, as stated: every SelectTxFormat call made with EnableUlOfdma set and
\* UlPsduSize zero ends in the fatal outcome of line 153 and returns no format,
\* whatever the previous decision returned; every uplink attempt whose ack
\* sequence is not the multi-station block ack ends in a fatal outcome; no
\* such call changes the cursor or the candidate sequences
C18_NullPsduAlwaysFatal ==
  [][last'.call = "SelectTxFormat"
       => /\ (m_enableUlOfdma /\ m_ulPsduSize = 0)
               => (last'.fault = "abort" /\ last'.ret = 153 /\ last'.format = "none")
          /\ (last'.ulEntered /\ ~last'.multiStaBa)
               => (last'.fault = "abort" /\ last'.ret \in {153, 180}
                   /\ last'.format = "none")
          /\ last'.fault = "abort"
               => (m_startStation' = m_startStation /\ m_staInfo' = m_staInfo
                   /\ m_dataInfo' = m_dataInfo)]_vars

\* C18, amended: the fatal outcome of line 153 ends exactly the calls that
\* enter the uplink path (EnableUlOfdma set and the previous decision returned
\* DL_OFDMA) with UlPsduSize zero; with UlPsduSize zero and any other previous
\* format the call takes the downlink path; every uplink attempt whose ack
\* sequence is not the multi-station block ack ends in a fatal outcome; no
\* fatal call returns a format or changes the cursor or the candidate sequences
C18_NullPsduFatalAfterDl ==
  [][last'.call = "SelectTxFormat"
       => /\ (m_enableUlOfdma /\ m_ulPsduSize = 0 /\ txFormat = "DL_OFDMA")
               => (last'.fault = "abort" /\ last'.ret = 153)
          /\ (m_enableUlOfdma /\ m_ulPsduSize = 0 /\ txFormat /= "DL_OFDMA")
               => (~last'.ulEntered /\ last'.dlEntered /\ last'.fault /= "abort")
          /\ last'.ret = 153 => (last'.ulEntered /\ m_ulPsduSize = 0)
          /\ (last'.ulEntered /\ ~last'.multiStaBa)
               => (last'.fault = "abort" /\ last'.ret \in {153, 180})
          /\ last'.ret = 180 => (last'.ulEntered /\ ~last'.multiStaBa /\ m_ulPsduSize /= 0)
          /\ last'.fault = "abort"
               => (/\ last'.format = "none" /\ pc' = "fault" /\ txFormat' = txFormat
                   /\ m_startStation' = m_startStation /\ m_staInfo' = m_staInfo
                   /\ m_dataInfo' = m_dataInfo)]_vars

\* EnableUlOfdma set and UlPsduSize zero, and the call returned DL_OFDMA with
\* a batch: the previous decision had not returned DL_OFDMA
C18_NullPsduDecisionReturned ==
  /\ last.call = "SelectTxFormat"
  /\ m_enableUlOfdma
  /\ m_ulPsduSize = 0
  /\ last.fault = "none"
  /\ last.prevFormat = "NON_OFDMA"
  /\ last.format = "DL_OFDMA"
  /\ last.batch /= <<>>

\* C19: on the uplink path a station of the previous TX vector that has left
\* the station table is skipped: its buffer status is not read, the estimate
\* is the one of the remaining stations alone, no block-ack entry is enabled
\* for it, and the call still returns a format; when every such station has
\* left, the estimate is zero and the downlink path is taken
C19_DepartedStationSkipped ==
  (last.call = "SelectTxFormat" /\ last.ulEntered /\ last.fault = "none")
    => LET remaining == last.users \cap Aids
           decode(c) == IF c = 255 THEN m_ulPsduSize
                        ELSE IF c = 254 THEN UnlimitedBuffer ELSE c * 256
       IN  /\ last.consulted \subseteq remaining
           /\ last.maxBufferSize \in {0} \cup {decode(bufferStatus[a]) : a \in last.consulted}
           /\ \A a \in remaining : a \in last.consulted \/ last.maxBufferSize = UnlimitedBuffer
           /\ last.format \in {"DL_OFDMA", "UL_OFDMA", "NON_OFDMA"}
           /\ last.format = "UL_OFDMA" => m_txParams = {staList[a] : a \in remaining}
           /\ remaining = {} => (last.maxBufferSize = 0 /\ last.dlEntered)

\* a station that had reported "not limited" has left; UL_OFDMA is returned
\* with the estimate and the block acks of the stations that remain
C19_UplinkWithoutDeparted ==
  /\ last.call = "SelectTxFormat"
  /\ last.format = "UL_OFDMA"
  /\ \E a \in last.users \ Aids : bufferStatus[a] = 254
  /\ last.users \cap Aids /= {}
  /\ last.maxBufferSize < UnlimitedBuffer
  /\ Cardinality(m_txParams) = Cardinality(last.users \cap Aids)

-----------------------------------------------------------------------------
(* Properties of the degenerate packing *)

\* C20: when the bulksend class is empty or the three classes hold at most
\* one candidate, GetNumberAndTypeOfRus returns the entries (type, 1) ..
\* (type, k) of one RU type: the first of 26, 52, 106, 242, 484, 996 tones
\* defined for the bandwidth with at most nStations slots, k being its slot
\* count; for nStations = 1 that is one entry of 242, 484, 996 tones at 20,
\* 40, 80 MHz and the one 2x996-tone entry at 160 MHz. The tentative call of
\* SelectTxFormat (empty classes, nStations = NStations) and the call of
\* ComputeDlOfdmaInfo (nStations = the batch size) are both covered.
C20_DegenerateUniform ==
  LET defined(n) == {t \in {26, 52, 106, 242, 484, 996} :
                       HeRuGroups(bw, t) > 0 /\ HeRuGroups(bw, t) <= n}
      first(n) == CHOOSE t \in defined(n) : \A u \in defined(n) : t <= u
      expected(n) == IF bw = 160 /\ n = 1 THEN <<<<RU_2x996_TONE, 1>>>>
                     ELSE UniformRus(first(n), HeRuGroups(bw, first(n)))
      uniform(ru) == /\ ru /= <<>>
                     /\ \A i \in 1..Len(ru) : ru[i] = <<ru[1][1], i>>
      degenerate(batch) ==
        \/ Len(Classify(batch, "bulksend")) = 0
        \/ Len(Classify(batch, "onoff")) + Len(Classify(batch, "bulksend"))
             + Len(Classify(batch, "http")) <= 1
  IN  /\ (last.call = "SelectTxFormat" /\ last.dlEntered)
        => /\ last.ret \notin {641, 652}
           /\ IF defined(m_nStations) /= {} \/ m_nStations = 1
              THEN last.ruLen = Len(expected(m_nStations))
              ELSE last.ruLen >= 1
      /\ (last.call = "ComputeDlOfdmaInfo" /\ last.batch /= <<>> /\ degenerate(last.batch))
        => /\ uniform(last.ruAssigned)
           /\ (defined(Len(last.batch)) /= {} \/ Len(last.batch) = 1)
                => last.ruAssigned = expected(Len(last.batch))

\* 160 MHz, one station: the tentative call of SelectTxFormat ends at line
\* 652 with std::out_of_range and returns no entry
C20_WholeChannelThrows ==
  /\ last.call = "SelectTxFormat"
  /\ last.dlEntered
  /\ bw = 160
  /\ m_nStations = 1
  /\ last.fault = "out_of_range"
  /\ last.ret = 652
  /\ last.ruLen = 0

-----------------------------------------------------------------------------
(* Properties of the classification and of the three packing branches *)

\* C21: for a batch of k candidates none of which is listed in a class table,
\* k being the slot count of an RU type of the bandwidth, ComputeDlOfdmaInfo
\* returns an allocation of k entries of that type, indices 1..k, each given
\* to a different station of the batch
C21_UnlistedBatchServed ==
  (/\ last.call = "ComputeDlOfdmaInfo"
   /\ last.batch /= <<>>
   /\ \A i \in 1..Len(last.batch) : ClassOf(last.batch[i]) = "none"
   /\ \E t \in {26, 52, 106, 242, 484, 996} : HeRuGroups(bw, t) = Len(last.batch))
    => LET k == Len(last.batch)
           t == CHOOSE u \in {26, 52, 106, 242, 484, 996} : HeRuGroups(bw, u) = k
       IN  /\ last.fault = "none"
           /\ last.ruAssigned = UniformRus(t, k)
           /\ DOMAIN dlInfo.users = AidsOf(last.batch)
           /\ {<<dlInfo.users[a].ruType, dlInfo.users[a].index>> : a \in DOMAIN dlInfo.users}
                = Range(UniformRus(t, k))

\* 20 MHz, four unlisted candidates: four 52-tone entries are returned for a
\* rewritten m_dataInfo that is empty, and the assertion of line 856 fails
C21_FourUnlistedAssert ==
  /\ last.call = "ComputeDlOfdmaInfo"
  /\ bw = 20
  /\ Len(last.batch) = 4
  /\ \A i \in 1..4 : ClassOf(last.batch[i]) = "none"
  /\ last.ruAssigned = UniformRus(RU_52_TONE, 4)
  /\ last.packed = <<>>
  /\ last.fault = "assert"
  /\ last.ret = 856

\* C22: with more than 7 onoff candidates and a bulksend candidate, whatever
\* the http class holds, GetNumberAndTypeOfRus returns the entries (type, 1)
\* .. (type, k) of the first RU type of the bandwidth, k being its slot
\* count, and rewrites the batch as each onoff candidate once, then each
\* bulksend candidate once, then each http candidate once
C22_OverflowKeepsClasses ==
  (/\ last.call = "ComputeDlOfdmaInfo"
   /\ Len(Classify(last.batch, "onoff")) > 7
   /\ Len(Classify(last.batch, "bulksend")) > 0)
    => LET n2 == Len(Classify(last.batch, "onoff"))
           n3 == Len(Classify(last.batch, "bulksend"))
           n4 == Len(Classify(last.batch, "http"))
           first == CHOOSE t \in {26, 52, 106, 242, 484, 996} :
                      /\ HeRuGroups(bw, t) > 0
                      /\ \A u \in {26, 52, 106, 242, 484, 996} : HeRuGroups(bw, u) > 0 => t <= u
       IN  /\ last.ret \notin {674, 652}
           /\ last.ruAssigned = UniformRus(first, HeRuGroups(bw, first))
           /\ Len(last.packed) = n2 + n3 + n4
           /\ Range(Slice(last.packed, 1, n2)) = Range(Classify(last.batch, "onoff"))
           /\ Range(Slice(last.packed, n2 + 1, n2 + n3)) = Range(Classify(last.batch, "bulksend"))
           /\ Range(Slice(last.packed, n2 + n3 + 1, n2 + n3 + n4))
                = Range(Classify(last.batch, "http"))

\* eight onoff candidates and fewer bulksend ones: the rewritten batch holds
\* eight elements between the onoff and the http candidates, and is longer
\* than the batch it was built from
C22_BulksendReadPastEnd ==
  /\ last.call = "ComputeDlOfdmaInfo"
  /\ last.fault = "none"
  /\ Len(Classify(last.batch, "onoff")) = 8
  /\ Len(Classify(last.batch, "bulksend")) \in 1..7
  /\ Len(Classify(last.batch, "http")) = 1
  /\ Len(last.packed) = 17
  /\ Len(last.packed) > Len(last.batch)
  /\ ClassOf(last.packed[17]) = "http"
  /\ last.ruAssigned = UniformRus(RU_26_TONE, HeRuGroups(bw, RU_26_TONE))

\* C23: the classification of GetNumberAndTypeOfRus puts every candidate of
\* the batch in exactly one of the classes onoff, bulksend, http, a candidate
\* listed in no table included
C23_ExactlyOneClass ==
  (last.call = "ComputeDlOfdmaInfo" /\ last.batch /= <<>>)
    => \A i \in 1..Len(last.batch) :
         Cardinality({class \in {"onoff", "bulksend", "http"} :
                        last.batch[i] \in Range(Classify(last.batch, class))}) = 1

\* a batch of listed candidates and one whose address is in no table: that
\* one is in none of the three classes
C23_CandidateInNoClass ==
  /\ last.call = "ComputeDlOfdmaInfo"
  /\ \E i, j \in 1..Len(last.batch) :
       /\ last.batch[i].mac \notin bulksend1 \cup onoff1 \cup http1
       /\ \A class \in {"onoff", "bulksend", "http"} :
            last.batch[i] \notin Range(Classify(last.batch, class))
       /\ last.batch[j].mac \in onoff1
       /\ last.batch[j] \in Range(Classify(last.batch, "onoff"))
       /\ last.batch[j] \notin Range(Classify(last.batch, "bulksend"))

\* C24: in the mixed branch (a bulksend candidate, more than one candidate,
\* at most 7 onoff ones) a 106-tone unit is reserved exactly when there are
\* at most 5 onoff candidates; the first entry is then (106-tone, 1), and
\* otherwise (52-tone, 1) followed by up to two 26-tone entries at indices 3
\* and 4; the first candidate of the rewritten batch, the one of the first
\* entry, is the bulksend candidate with the largest frame
C24_MixedFirstEntry ==
  LET n2 == Len(Classify(last.batch, "onoff"))
      n3 == Len(Classify(last.batch, "bulksend"))
      n4 == Len(Classify(last.batch, "http"))
      ru == last.ruAssigned
      n106 == Cardinality({i \in 1..Len(ru) : ru[i][1] = RU_106_TONE})
      follow == Min2(2, n2 + n4)
  IN  (last.call = "ComputeDlOfdmaInfo" /\ n3 > 0 /\ n2 + n3 + n4 > 1 /\ n2 <= 7)
        => /\ last.ret \notin {641, 652, 674}
           /\ n106 = (IF n2 <= 5 THEN 1 ELSE 0)
           /\ IF n2 <= 5
              THEN ru[1] = <<RU_106_TONE, 1>>
              ELSE /\ ru[1] = <<RU_52_TONE, 1>>
                   /\ Len(ru) >= 1 + follow
                   /\ \A i \in 1..follow : ru[1 + i] = <<RU_26_TONE, 2 + i>>
           /\ ClassOf(last.packed[1]) = "bulksend"
           /\ last.packed[1] \in Range(last.batch)
           /\ \A i \in 1..Len(last.batch) :
                ClassOf(last.batch[i]) = "bulksend" => last.batch[i].size <= last.packed[1].size

\* six onoff candidates and two bulksend ones with frames of different
\* sizes: no 106-tone unit, the 52-tone unit first, for the larger frame
C24_FiftyTwoFirst ==
  /\ last.call = "ComputeDlOfdmaInfo"
  /\ Len(Classify(last.batch, "onoff")) = 6
  /\ last.ruAssigned[1] = <<RU_52_TONE, 1>>
  /\ last.ruAssigned[2] = <<RU_26_TONE, 3>>
  /\ last.ruAssigned[3] = <<RU_26_TONE, 4>>
  /\ ClassOf(last.packed[1]) = "bulksend"
  /\ \E i \in 1..Len(last.batch) :
       /\ ClassOf(last.batch[i]) = "bulksend"
       /\ last.batch[i].size < last.packed[1].size

\* C25: in the mixed branch the entries stay within the 242 tones of a 20 MHz
\* segment: their tone sizes sum to at most 242, the entries of each size
\* are as many as were reserved (allocated106, allocated52, allocated26), no
\* (type, index) pair is emitted twice, and every index is a slot of its
\* type (26-tone 1..9, 52-tone 1..4, 106-tone 1..2)
C25_MixedWithinBudget ==
  LET n2 == Len(Classify(last.batch, "onoff"))
      n3 == Len(Classify(last.batch, "bulksend"))
      n4 == Len(Classify(last.batch, "http"))
      ru == last.ruAssigned
      count(t) == Cardinality({i \in 1..Len(ru) : ru[i][1] = t})
      cnt == MixedCounts(n2, n3, n4)
  IN  (last.call = "ComputeDlOfdmaInfo" /\ n3 > 0 /\ n2 + n3 + n4 > 1 /\ n2 <= 7)
        => /\ 106 * count(RU_106_TONE) + 52 * count(RU_52_TONE) + 26 * count(RU_26_TONE) <= 242
           /\ count(RU_106_TONE) = cnt.allocated106
           /\ count(RU_52_TONE) = cnt.allocated52
           /\ count(RU_26_TONE) = cnt.allocated26
           /\ \A i, j \in 1..Len(ru) : ru[i] = ru[j] => i = j
           /\ \A i \in 1..Len(ru) : ru[i][2] \in 1..HeRuGroups(20, ru[i][1])

\* seven onoff, one bulksend and one http candidate: nine entries, the last
\* one the 26-tone index 10, 260 tones in all, eight 26-tone entries where
\* seven were reserved
C25_TenthSlot ==
  /\ last.call = "ComputeDlOfdmaInfo"
  /\ Len(Classify(last.batch, "onoff")) = 7
  /\ Len(Classify(last.batch, "bulksend")) = 1
  /\ Len(Classify(last.batch, "http")) = 1
  /\ MixedCounts(7, 1, 1).allocated26 = 7
  /\ Len(last.ruAssigned) = 9
  /\ last.ruAssigned[1] = <<RU_52_TONE, 1>>
  /\ last.ruAssigned[9] = <<RU_26_TONE, 10>>
  /\ \A i \in 2..9 : last.ruAssigned[i][1] = RU_26_TONE

-----------------------------------------------------------------------------
(* Properties of the sort *)

\* C26: merge_sort applied to a class list of any length, 0 and 1 included,
\* yields a permutation of the list in non-increasing order of frame size in
\* which candidates of equal size keep their input order; the class lists of
\* the rewritten m_dataInfo are the lists so sorted (unless the copy loop of
\* line 674 read past the end of the bulksend list)
C26_SortStableDescending ==
  (last.call = "ComputeDlOfdmaInfo" /\ last.batch /= <<>>)
    => \A class \in {"onoff", "bulksend", "http"} :
         LET v == Classify(last.batch, class)
             sorted == merge_sort(v, 0, Len(v) - 1)
             pos(c) == CHOOSE i \in 1..Len(v) : v[i] = c
         IN  /\ Len(sorted) = Len(v)
             /\ Range(sorted) = Range(v)
             /\ \A i, j \in 1..Len(sorted) :
                  i < j => /\ sorted[i].size >= sorted[j].size
                           /\ sorted[i].size = sorted[j].size
                                => pos(sorted[i]) < pos(sorted[j])
             /\ ~ReadsPastBulksend(last.batch) => Classify(last.packed, class) = sorted

\* an onoff list in which a smaller frame precedes a larger one and two
\* frames have the same size, and an http list of length one
C26_TiesAndInversions ==
  /\ last.call = "ComputeDlOfdmaInfo"
  /\ last.fault = "none"
  /\ Len(Classify(last.batch, "http")) = 1
  /\ LET v == Classify(last.batch, "onoff")
     IN  /\ \E i, j \in 1..Len(v) : i < j /\ v[i].size < v[j].size
         /\ \E i, j \in 1..Len(v) : i < j /\ v[i].size = v[j].size
         /\ Classify(last.packed, "onoff") /= v
         /\ Classify(last.packed, "onoff")[1].size >= v[1].size

\* C27: running GetNumberAndTypeOfRus again on the batch it has just
\* rewritten, with the same bandwidth, station count and class tables,
\* returns the same entries and leaves the batch as it is, in each of the
\* three branches and with frames of equal size
C27_PackerIdempotent ==
  (last.call = "ComputeDlOfdmaInfo" /\ last.batch /= <<>> /\ last.ret \notin {641, 652, 674})
    => \A ub \in (IF ReadsPastBulksend(last.packed) THEN UbOutcomes ELSE {"none"}) :
         LET again == GetNumberAndTypeOfRus(bw, Len(last.batch), last.packed, ub)
         IN  /\ again.fault = "none"
             /\ again.ruAssigned = last.ruAssigned
             /\ again.dataInfo = last.packed

\* overflow branch, fewer bulksend than onoff candidates: the first run left
\* zeroed elements read past the end of the bulksend list in the batch; the
\* second run drops them, reads past the end again and can return a batch
\* that differs
C27_SecondRunDiffers ==
  /\ last.call = "ComputeDlOfdmaInfo"
  /\ last.fault = "none"
  /\ ReadsPastBulksend(last.batch)
  /\ NullCandidate \in Range(last.packed)
  /\ ReadsPastBulksend(last.packed)
  /\ GetNumberAndTypeOfRus(bw, Len(last.batch), last.packed, "high").dataInfo /= last.packed
  /\ GetNumberAndTypeOfRus(bw, Len(last.batch), last.packed, "high").ruAssigned = last.ruAssigned

-----------------------------------------------------------------------------
(* Properties of the stations consulted and of the tentative RU list *)

\* C28: whenever SelectTxFormat enters the uplink path, the stations whose
\* buffer status it reads are the stations that were given an RU by the
\* allocation ComputeDlOfdmaInfo returned last; after a DL_OFDMA decision
\* that served no station there is none
C28_ConsultedAreServed ==
  (last.call = "SelectTxFormat" /\ last.ulEntered /\ last.fault = "none")
    => last.consulted = DOMAIN dlInfo.users

\* ForceDlOfdma: the preceding decision returned DL_OFDMA at line 451 with
\* an empty batch, ComputeDlOfdmaInfo returned an empty allocation, and the
\* uplink path reads the buffer status of the stations of the guess of line
\* 353, none of which was given an RU
C28_GuessConsulted ==
  /\ last.call = "SelectTxFormat"
  /\ last.ulEntered
  /\ last.fault = "none"
  /\ m_forceDlOfdma
  /\ last.selRet = 451
  /\ dlInfo = NoDlInfo
  /\ last.consulted /= {}
  /\ last.consulted = last.users \cap Aids

\* C29: the entry of the tentative RU list read for the fit test of a TID
\* always exists: counting the entries from 1, the largest position read
\* during the selection is at most the length of the list
C29_RuEntryExists ==
  (last.call = "SelectTxFormat" /\ last.dlEntered /\ last.ret \notin {641, 652})
    => last.maxPos <= last.ruLen

\* NStations = 1: the list holds one entry, and the fit test of a frame of
\* TID 6, the eighth TID of the order, reads the eighth; the call crashes
C29_EighthEntryOfOne ==
  /\ last.call = "SelectTxFormat"
  /\ last.dlEntered
  /\ m_nStations = 1
  /\ last.ruLen = 1
  /\ last.maxPos = 8
  /\ last.fault = "ub"
  /\ last.ret = 414

====
